---- MODULE Spec2Model ----
(***************************************************************************)
(* Opportunity detection of the two dashboards:                            *)
(*   - app.py: the binary-outcome classifier find_arbitrage_opportunities  *)
(*     over normalized Polymarket quotes, and its ranking;                 *)
(*   - dex_arbitrage_detector.py: DexArbitrageDetector.get_price and       *)
(*     DexArbitrageDetector.find_arbitrage_opportunities over exchanges;   *)
(*   - the two Streamlit scripts around them: one action per script run    *)
(*     of app.py (fetch, process_markets, classify, store, auto-refresh)   *)
(*     and of dex_arbitrage_dashboard.py main (scan, history, e-mail).     *)
(* Python floats are modelled as exact rationals <<numerator, denominator>>*)
(* in lowest terms with a positive denominator.                            *)
(***************************************************************************)
EXTENDS Integers, Sequences, FiniteSets, TLC

VARIABLES
    app,                    \* which program runs: "polymarket" (app.py) or "dex"
    pc,                     \* position of find_arbitrage_opportunities (app.py)
    markets,                \* its argument: the list of normalized quotes
    min_profit_pct,         \* its argument T
    max_investment,         \* its argument M
    idx,                    \* 1-based position of the `for market in markets` loop
    opportunities,          \* its local list `opportunities` / the returned list
    locals,                 \* locals of the last loop iteration
    exchanges,              \* detector: self.exchanges, the names in dict order
    min_profit_percentage,  \* detector: self.min_profit_percentage
    token_pairs,            \* detector: argument of find_arbitrage_opportunities
    sym,                    \* 1-based position of `for symbol in token_pairs`
    exch,                   \* 1-based position of `for exchange_name in ...keys()`
    prices,                 \* the dict `prices`, in insertion order
    tickers,                \* what fetch_ticker did for the current symbol, per exchange asked
    calls,                  \* number of get_price calls made by the scan
    runs,                   \* script runs so far; run number r is also the clock value r
    run_in,                 \* widget values and environment of the last script run
    run_out,                \* what the last script run did and displayed
    raw_markets,            \* app.py: the local raw_markets of the last run
    answers,                \* dashboard: what fetch_ticker did in the last scan, per pair and exchange
    session_opportunities,  \* app.py: st.session_state.opportunities
    last_update,            \* app.py: st.session_state.last_update (0 is None)
    opportunities_history,  \* dashboard: st.session_state.opportunities_history
    last_scan_time,         \* dashboard: st.session_state.last_scan_time (0 is None)
    total_opportunities_found,  \* dashboard: st.session_state.total_opportunities_found
    email_sent_count,       \* dashboard: st.session_state.email_sent_count
    appended                \* every opportunity ever passed to opportunities_history.extend

polyVars == <<markets, min_profit_pct, max_investment, idx, locals>>
dexVars == <<exchanges, min_profit_percentage, token_pairs, sym, exch, prices,
             tickers, calls>>
uiVars == <<runs, run_in, run_out, raw_markets, answers, session_opportunities,
            last_update, opportunities_history, last_scan_time,
            total_opportunities_found, email_sent_count, appended>>
vars == <<app, pc, opportunities, polyVars, dexVars, uiVars>>

----------------------------------------------------------------------------
(* Exact rational arithmetic standing for Python float arithmetic. *)

Abs(n) == IF n < 0 THEN -n ELSE n

RECURSIVE GCD(_, _)
GCD(a, b) == IF b = 0 THEN a ELSE GCD(b, a % b)

Rat(n, d) ==
    LET g == GCD(Abs(n), Abs(d))
        s == IF d < 0 THEN -1 ELSE 1
    IN  <<(s * n) \div g, (s * d) \div g>>

RAdd(x, y) == Rat(x[1] * y[2] + y[1] * x[2], x[2] * y[2])
RSub(x, y) == Rat(x[1] * y[2] - y[1] * x[2], x[2] * y[2])
RMul(x, y) == Rat(x[1] * y[1], x[2] * y[2])
RDiv(x, y) == Rat(x[1] * y[2], x[2] * y[1])
RNeg(x) == <<-x[1], x[2]>>
RAbs(x) == <<Abs(x[1]), x[2]>>
RLt(x, y) == x[1] * y[2] < y[1] * x[2]
RLe(x, y) == x[1] * y[2] <= y[1] * x[2]
RMin(x, y) == IF RLt(y, x) THEN y ELSE x
Zero == Rat(0, 1)
Hundred == Rat(100, 1)

One == Rat(1, 1)
Two == Rat(2, 1)
Half == Rat(1, 2)

----------------------------------------------------------------------------
(* app.py: find_arbitrage_opportunities(markets, min_profit_pct, max_investment) *)

LiquidityShare == Rat(1, 10)         \* market['liquidity'] * 0.1
MinLiquidity == Rat(10, 1)           \* available_liquidity < 10
SureWinBelow == Rat(98, 100)         \* total_price < 0.98
OverpricedAbove == Rat(102, 100)     \* total_price > 1.02
FeeFactor == Rat(8, 10)              \* (total_price - 1) * 0.8
ExtremeLow == Rat(15, 100)           \* yes_price < 0.15
ExtremeHigh == Rat(85, 100)          \* yes_price > 0.85
ValueLiquidity == Rat(5000, 1)       \* market['liquidity'] > 5000
ExpectedLow == Rat(25, 100)          \* expected_value 0.25
ExpectedHigh == Rat(75, 100)         \* expected_value 0.75

total_price(market) == RAdd(market.yes_price, market.no_price)

available_liquidity(market, M) == RMin(RMul(market.liquidity, LiquidityShare), M)

\* faulty variant: the investment ignores the liquidity cap
investment_Uncapped(market, M) == M

investment(market, M) == RMin(M, available_liquidity(market, M))

\* profit_pct = (profit / investment) * 100
ProfitPct(profit, inv) == RMul(RDiv(profit, inv), Hundred)

\* Type 1: the division by a price of 0 raises ZeroDivisionError
SureWinRaises(market) == market.yes_price = Zero \/ market.no_price = Zero

\* faulty variant: the return is the larger of the two share counts
SureWinProfit_Max(market, inv) ==
    LET yes_shares == RDiv(RMul(inv, Half), market.yes_price)
        no_shares == RDiv(RMul(inv, Half), market.no_price)
        guaranteed_return == IF RLt(yes_shares, no_shares) THEN no_shares ELSE yes_shares
    IN  RSub(guaranteed_return, inv)

SureWinProfit(market, inv) ==
    LET yes_shares == RDiv(RMul(inv, Half), market.yes_price)
        no_shares == RDiv(RMul(inv, Half), market.no_price)
        guaranteed_return == RMin(yes_shares, no_shares)
    IN  RSub(guaranteed_return, inv)

\* faulty variant: the profit scales with the yes price instead of the excess over 1
OverpricedProfit_Price(market, inv) ==
    RMul(RMul(inv, RSub(total_price(market), One)), RMul(FeeFactor, market.yes_price))

OverpricedProfit(market, inv) ==
    RMul(RMul(inv, RSub(total_price(market), One)), FeeFactor)

ExtremeBand(market) ==
    /\ RLt(market.yes_price, ExtremeLow) \/ RLt(ExtremeHigh, market.yes_price)
    /\ RLt(ValueLiquidity, market.liquidity)

ValueBetProfit(market, inv) ==
    LET expected_value == IF RLt(market.yes_price, ExtremeLow) THEN ExpectedLow
                          ELSE ExpectedHigh
    IN  RMul(inv, RAbs(RSub(expected_value, market.yes_price)))

\* faulty variant: the value-bet branch uses the base threshold
ValueBetThreshold_Base(T) == T

\* the threshold of the value-bet branch: min_profit_pct * 2
ValueBetThreshold(T) == RMul(T, Two)

\* which branch of the if/elif chain the loop body takes for a quote
Branch(market, M) ==
    IF RLt(available_liquidity(market, M), MinLiquidity) THEN "skip"
    ELSE IF RLt(total_price(market), SureWinBelow) THEN "sure_win"
    ELSE IF RLt(OverpricedAbove, total_price(market)) THEN "overpriced"
    ELSE IF ExtremeBand(market) THEN "value_bet"
    ELSE "none"

\* the dict appended to `opportunities`; `question` identifies the quote
Opportunity(type, risk, market, k, inv, profit) ==
    [type |-> type, question |-> k,
     yes_price |-> market.yes_price, no_price |-> market.no_price,
     total_price |-> total_price(market), investment |-> inv,
     profit |-> profit, profit_pct |-> ProfitPct(profit, inv),
     risk |-> risk, liquidity |-> market.liquidity]

SureWinAppends(market, k, T, M) ==
    LET inv == investment(market, M)
        profit == SureWinProfit(market, inv)
    IN  IF RLe(T, ProfitPct(profit, inv))
        THEN <<Opportunity("Sure Win", "None", market, k, inv, profit)>>
        ELSE <<>>

OverpricedAppends(market, k, T, M) ==
    LET inv == investment(market, M)
        profit == OverpricedProfit(market, inv)
    IN  IF RLe(T, ProfitPct(profit, inv))
        THEN <<Opportunity("Overpriced", "Low", market, k, inv, profit)>>
        ELSE <<>>

ValueBetAppends(market, k, T, M) ==
    LET inv == investment(market, M)
        profit == ValueBetProfit(market, inv)
    IN  IF RLe(ValueBetThreshold(T), ProfitPct(profit, inv))
        THEN <<Opportunity("Value Bet", "Medium", market, k, inv, profit)>>
        ELSE <<>>

\* faulty variant: the value-bet test is an `if` of its own, not an `elif`
Appends_NoElif(market, k, T, M) ==
    LET b == Branch(market, M)
        first == IF b = "sure_win" THEN SureWinAppends(market, k, T, M)
                 ELSE IF b = "overpriced" THEN OverpricedAppends(market, k, T, M)
                 ELSE <<>>
    IN  IF b # "skip" /\ ExtremeBand(market)
        THEN first \o ValueBetAppends(market, k, T, M)
        ELSE first

\* what one iteration of the loop appends, when it does not raise
Appends(market, k, T, M) ==
    LET b == Branch(market, M)
    IN  IF b = "sure_win" THEN SureWinAppends(market, k, T, M)
        ELSE IF b = "overpriced" THEN OverpricedAppends(market, k, T, M)
        ELSE IF b = "value_bet" THEN ValueBetAppends(market, k, T, M)
        ELSE <<>>

\* the locals investment, profit and profit_pct as the iteration leaves them
\* (Zero where the iteration does not assign them)
IterationLocals(market, M) ==
    LET b == Branch(market, M)
        inv == investment(market, M)
        profit == IF b = "sure_win" THEN SureWinProfit(market, inv)
                  ELSE IF b = "overpriced" THEN OverpricedProfit(market, inv)
                  ELSE IF b = "value_bet" THEN ValueBetProfit(market, inv)
                  ELSE Zero
    IN  [branch |-> b,
         investment |-> IF b = "skip" THEN Zero ELSE inv,
         profit |-> profit,
         profit_pct |-> IF b \in {"skip", "none"} THEN Zero ELSE ProfitPct(profit, inv)]

NoLocals == [branch |-> "none", investment |-> Zero, profit |-> Zero, profit_pct |-> Zero]

----------------------------------------------------------------------------
(* dex_arbitrage_detector.py: DexArbitrageDetector *)

\* None, and an absent or null ticker field
NoPrice == <<0, 0>>

\* Python truthiness of a price: None and 0.0 are falsy
Truthy(v) == v # NoPrice /\ v # Zero

\* exchange_list of _initialize_exchanges, shortened to its first names
ExchangeList == <<"binance", "coinbasepro", "kraken">>

\* get_price after exchange.fetch_ticker(symbol) has answered `ticker`;
\* a fetch that raises (a timeout included) is caught and gives None
get_price(ticker) ==
    IF ticker.kind = "raise" THEN NoPrice
    ELSE IF Truthy(ticker.bid) /\ Truthy(ticker.ask)
         THEN RDiv(RAdd(ticker.bid, ticker.ask), Two)
    ELSE IF Truthy(ticker.last) THEN ticker.last
    ELSE NoPrice

\* `if price: prices[exchange_name] = price`
Collect(map, exchange_name, price) ==
    IF Truthy(price) THEN Append(map, [exchange |-> exchange_name, price |-> price])
    ELSE map

\* faulty variant: the last key holding the least value
RECURSIVE MinKey_Last(_, _)
MinKey_Last(map, n) ==
    IF n = 1 THEN 1
    ELSE LET best == MinKey_Last(map, n - 1)
         IN  IF RLe(map[n].price, map[best].price) THEN n ELSE best

\* min(prices, key=prices.get): the first key holding the least value
RECURSIVE MinKey(_, _)
MinKey(map, n) ==
    IF n = 1 THEN 1
    ELSE LET best == MinKey(map, n - 1)
         IN  IF RLt(map[n].price, map[best].price) THEN n ELSE best

\* max(prices, key=prices.get): the first key holding the greatest value
RECURSIVE MaxKey(_, _)
MaxKey(map, n) ==
    IF n = 1 THEN 1
    ELSE LET best == MaxKey(map, n - 1)
         IN  IF RLt(map[best].price, map[n].price) THEN n ELSE best

\* profit_percentage = ((max_price - min_price) / min_price) * 100
SpreadPct(min_price, max_price) ==
    RMul(RDiv(RSub(max_price, min_price), min_price), Hundred)

\* faulty variant: one price is enough
EnoughPrices_One(map) == Len(map) >= 1

\* `if len(prices) >= 2`
EnoughPrices(map) == Len(map) >= 2

\* what the body of `for symbol in token_pairs` appends once prices are collected
SpreadAppends(map, symbol, T) ==
    IF EnoughPrices(map)
    THEN LET min_exchange == map[MinKey(map, Len(map))].exchange
             max_exchange == map[MaxKey(map, Len(map))].exchange
             min_price == map[MinKey(map, Len(map))].price
             max_price == map[MaxKey(map, Len(map))].price
             profit_percentage == SpreadPct(min_price, max_price)
         IN  IF RLe(T, profit_percentage)
             THEN <<[token_pair |-> symbol,
                     buy_exchange |-> min_exchange, sell_exchange |-> max_exchange,
                     buy_price |-> min_price, sell_price |-> max_price,
                     profit_percentage |-> profit_percentage]>>
             ELSE <<>>
    ELSE <<>>

----------------------------------------------------------------------------
(* The ranking: list.sort(key=...) is a stable sort *)

\* app.py: key=lambda x: (0 if x['risk'] == 'None' else 1, -x['profit_pct'])
RiskRank(o) == IF o.risk = "None" THEN 0 ELSE 1

KeyBefore(a, b) ==
    \/ RiskRank(a) < RiskRank(b)
    \/ /\ RiskRank(a) = RiskRank(b)
       /\ RLt(RNeg(a.profit_pct), RNeg(b.profit_pct))

\* detector: key=lambda x: x.profit_percentage, reverse=True
ProfitBefore(a, b) == RLt(b.profit_percentage, a.profit_percentage)

\* whether a sorts strictly before b under the key of the given program
SortsBefore(order, a, b) ==
    IF order = "polymarket" THEN KeyBefore(a, b) ELSE ProfitBefore(a, b)

\* faulty variant: x goes before the first element that does not sort before it, so
\* equal keys swap
RECURSIVE InsertSorted_Unstable(_, _, _)
InsertSorted_Unstable(sorted, x, order) ==
    IF sorted = <<>> THEN <<x>>
    ELSE IF ~SortsBefore(order, Head(sorted), x) THEN <<x>> \o sorted
    ELSE <<Head(sorted)>> \o InsertSorted_Unstable(Tail(sorted), x, order)

\* x goes before the first element it sorts strictly before: equal keys keep
\* their order
RECURSIVE InsertSorted(_, _, _)
InsertSorted(sorted, x, order) ==
    IF sorted = <<>> THEN <<x>>
    ELSE IF SortsBefore(order, x, Head(sorted)) THEN <<x>> \o sorted
    ELSE <<Head(sorted)>> \o InsertSorted(Tail(sorted), x, order)

\* seq[lo], ..., seq[hi] inserted into `sorted`, one after the other in this
\* order; the list after the first half is bound as a value before the second
\* half is inserted, which keeps the evaluation shallow on long lists
RECURSIVE InsertRange(_, _, _, _, _)
InsertRange(sorted, seq, lo, hi, order) ==
    IF lo > hi THEN sorted
    ELSE IF lo = hi THEN InsertSorted(sorted, seq[lo], order)
    ELSE LET mid == (lo + hi) \div 2
         IN  CHOOSE result \in {InsertRange(left, seq, mid + 1, hi, order) :
                            left \in {InsertRange(sorted, seq, lo, mid, order)}} : TRUE

SortPrefix(seq, n, order) == InsertRange(<<>>, seq, 1, n, order)

StableSort(seq, order) == SortPrefix(seq, Len(seq), order)

----------------------------------------------------------------------------
(* Inputs *)

MaxMarkets == 2

Q(y, n, l) == [yes_price |-> Rat(y, 100), no_price |-> Rat(n, 100), liquidity |-> Rat(l, 1)]

\* <<yes_price, no_price>> in cents: every branch of the classifier, the
\* unequal sure-win pair, a price of 0, equal totals from different prices
PricePairs ==
    {<<45, 47>>, <<90, 5>>, <<14, 80>>, <<0, 50>>, <<60, 50>>, <<90, 20>>,
     <<10, 90>>, <<90, 10>>, <<50, 50>>}

\* every pair below the liquidity floor and above the value-bet liquidity, and
\* the sure-win and overpriced pairs at the liquidities in between
Quotes ==
    {Q(p[1], p[2], l) : p \in PricePairs, l \in {50, 6000}}
    \cup {Q(p[1], p[2], l) : p \in {<<45, 47>>, <<60, 50>>}, l \in {500, 1000, 2000}}

\* <<min_profit_pct, max_investment>>
Params == {<<Rat(2, 1), Rat(100, 1)>>, <<Rat(10, 1), Rat(100, 1)>>, <<Rat(2, 1), Rat(5, 1)>>}

RECURSIVE SeqsUpTo(_, _)
SeqsUpTo(S, n) ==
    IF n = 0 THEN {<<>>}
    ELSE LET shorter == SeqsUpTo(S, n - 1)
         IN  shorter \cup {Append(s, x) : s \in {t \in shorter : Len(t) = n - 1}, x \in S}

MaxPairs == 2

Ticker(b, a, l) == [kind |-> "ticker", bid |-> b, ask |-> a, last |-> l]

Raised == [kind |-> "raise", bid |-> NoPrice, ask |-> NoPrice, last |-> NoPrice]

\* what fetch_ticker may do: raise, or answer a ticker
Tickers ==
    {Raised,
     Ticker(NoPrice, NoPrice, NoPrice),
     Ticker(Rat(100, 1), NoPrice, Zero),
     Ticker(NoPrice, NoPrice, Rat(100, 1)),
     Ticker(Rat(100, 1), Rat(103, 1), Rat(100, 1)),
     Ticker(Rat(100, 1), Rat(101, 1), NoPrice)}

DexThresholds == {Zero, One}

\* the subsequences of a sequence: the exchanges whose construction succeeded
RECURSIVE SubSeqs(_)
SubSeqs(seq) ==
    IF seq = <<>> THEN {<<>>}
    ELSE LET rest == SubSeqs(Tail(seq))
         IN  rest \cup {<<Head(seq)>> \o r : r \in rest}

----------------------------------------------------------------------------
(* Script runs: inputs and outputs *)

NoInput ==
    [button |-> FALSE, auto |-> FALSE, api_type |-> "none", fetch_ok |-> TRUE,
     email_enabled |-> FALSE, email_config |-> FALSE, smtp_ok |-> TRUE]

NoOutput ==
    [scanned |-> FALSE, stored |-> FALSE, raised |-> FALSE, notice |-> "none",
     email_notice |-> "none", shown |-> FALSE, rerun |-> FALSE]

----------------------------------------------------------------------------
(* The state machine *)

PolyIdle ==
    /\ markets = <<>>
    /\ min_profit_pct = Zero
    /\ max_investment = Zero
    /\ idx = 1
    /\ locals = NoLocals

DexIdle ==
    /\ exchanges = <<>>
    /\ min_profit_percentage = Zero
    /\ token_pairs = <<>>
    /\ sym = 1
    /\ exch = 1
    /\ prices = <<>>
    /\ tickers = <<>>
    /\ calls = 0

\* no script has run: the session state as the scripts initialise it
UiIdle ==
    /\ runs = 0
    /\ run_in = NoInput
    /\ run_out = NoOutput
    /\ raw_markets = <<>>
    /\ answers = <<>>
    /\ session_opportunities = <<>>
    /\ last_update = 0
    /\ opportunities_history = <<>>
    /\ last_scan_time = 0
    /\ total_opportunities_found = 0
    /\ email_sent_count = 0
    /\ appended = <<>>

Init ==
    /\ opportunities = <<>>
    /\ UiIdle
    /\ \/ /\ app = "polymarket"
          /\ pc = "loop"
          /\ markets \in SeqsUpTo(Quotes, MaxMarkets)
          /\ \E pm \in Params : min_profit_pct = pm[1] /\ max_investment = pm[2]
          /\ idx = 1
          /\ locals = NoLocals
          /\ DexIdle
       \/ /\ app = "dex"
          /\ pc = "start"
          /\ exchanges \in SubSeqs(ExchangeList)
          /\ min_profit_percentage \in DexThresholds
          /\ token_pairs \in {[k \in 1..n |-> k] : n \in 0..MaxPairs}
          /\ sym = 1
          /\ exch = 1
          /\ prices = <<>>
          /\ tickers = <<>>
          /\ calls = 0
          /\ PolyIdle

\* one iteration of `for market in markets` that completes
ClassifyMarket ==
    /\ app = "polymarket"
    /\ UNCHANGED uiVars
    /\ pc = "loop"
    /\ idx <= Len(markets)
    /\ ~(Branch(markets[idx], max_investment) = "sure_win" /\ SureWinRaises(markets[idx]))
    /\ opportunities' = opportunities \o
            Appends(markets[idx], idx, min_profit_pct, max_investment)
    /\ locals' = IterationLocals(markets[idx], max_investment)
    /\ idx' = idx + 1
    /\ UNCHANGED <<app, pc, markets, min_profit_pct, max_investment, dexVars>>

\* one iteration that raises ZeroDivisionError: nothing catches it in the function
ClassifyRaises ==
    /\ app = "polymarket"
    /\ UNCHANGED uiVars
    /\ pc = "loop"
    /\ idx <= Len(markets)
    /\ Branch(markets[idx], max_investment) = "sure_win"
    /\ SureWinRaises(markets[idx])
    /\ pc' = "raised"
    /\ UNCHANGED <<app, opportunities, polyVars, dexVars>>

\* the loop is over: opportunities.sort(...) ; return opportunities
SortAndReturn ==
    /\ app = "polymarket"
    /\ UNCHANGED uiVars
    /\ pc = "loop"
    /\ idx = Len(markets) + 1
    /\ opportunities' = StableSort(opportunities, "polymarket")
    /\ pc' = "returned"
    /\ UNCHANGED <<app, polyVars, dexVars>>

\* detector, top of `for symbol in token_pairs`: prices = {}
StartSymbol ==
    /\ app = "dex"
    /\ UNCHANGED uiVars
    /\ pc = "start"
    /\ sym <= Len(token_pairs)
    /\ prices' = <<>>
    /\ tickers' = <<>>
    /\ exch' = 1
    /\ pc' = "fetch"
    /\ UNCHANGED <<app, opportunities, polyVars, exchanges, min_profit_percentage,
                   token_pairs, sym, calls>>

\* faulty variant: get_price has no try/except, a raising fetch ends the scan
GetPrice_Abort ==
    /\ app = "dex"
    /\ UNCHANGED uiVars
    /\ pc = "fetch"
    /\ exch <= Len(exchanges)
    /\ \E ticker \in Tickers :
          /\ tickers' = Append(tickers, ticker)
          /\ prices' = Collect(prices, exchanges[exch], get_price(ticker))
          /\ pc' = IF ticker.kind = "raise" THEN "raised" ELSE pc
    /\ exch' = exch + 1
    /\ calls' = calls + 1
    /\ UNCHANGED <<app, opportunities, polyVars, exchanges, min_profit_percentage,
                   token_pairs, sym>>

\* detector, one iteration of the inner loop: price = self.get_price(...)
GetPrice ==
    /\ app = "dex"
    /\ UNCHANGED uiVars
    /\ pc = "fetch"
    /\ exch <= Len(exchanges)
    /\ \E ticker \in Tickers :
          /\ tickers' = Append(tickers, ticker)
          /\ prices' = Collect(prices, exchanges[exch], get_price(ticker))
    /\ exch' = exch + 1
    /\ calls' = calls + 1
    /\ UNCHANGED <<app, pc, opportunities, polyVars, exchanges, min_profit_percentage,
                   token_pairs, sym>>

\* detector, the rest of the outer loop body once every exchange was asked
ClassifySymbol ==
    /\ app = "dex"
    /\ UNCHANGED uiVars
    /\ pc = "fetch"
    /\ exch = Len(exchanges) + 1
    /\ opportunities' = opportunities \o SpreadAppends(prices, sym, min_profit_percentage)
    /\ sym' = sym + 1
    /\ pc' = "start"
    /\ UNCHANGED <<app, polyVars, exchanges, min_profit_percentage, token_pairs, exch,
                   prices, tickers, calls>>

\* detector, the loop is over: opportunities.sort(..., reverse=True) ; return
DexSortAndReturn ==
    /\ app = "dex"
    /\ UNCHANGED uiVars
    /\ pc = "start"
    /\ sym = Len(token_pairs) + 1
    /\ opportunities' = StableSort(opportunities, "dex")
    /\ pc' = "returned"
    /\ UNCHANGED <<app, polyVars, dexVars>>

Next ==
    \/ ClassifyMarket
    \/ ClassifyRaises
    \/ SortAndReturn
    \/ StartSymbol
    \/ GetPrice
    \/ ClassifySymbol
    \/ DexSortAndReturn

Spec == Init /\ [][Next]_vars

----------------------------------------------------------------------------
(* app.py: process_markets *)

\* a JSON field of a raw record: the key is absent, or its value is null, a
\* number (or numeric string), or a string that float() rejects
Absent == [tag |-> "absent", val |-> NoPrice]
Null == [tag |-> "null", val |-> NoPrice]
Text == [tag |-> "text", val |-> NoPrice]
Num(n, d) == [tag |-> "num", val |-> Rat(n, d)]

\* the price array of a raw record (outcomePrices, or the price field of each
\* of `tokens`): the key is absent, its value is null, or it is a list
NoList == [tag |-> "absent", items |-> <<>>]
NullList == [tag |-> "null", items |-> <<>>]
List(items) == [tag |-> "list", items |-> items]

\* float(v) raises TypeError for None and ValueError for a non-numeric string
FloatRaises(v) == v.tag \in {"null", "text"}

\* market.get(key, default)
GetOr(field, default) == IF field.tag = "absent" THEN default ELSE field

\* Python truthiness of a price element: None (and '') are falsy, a numeric
\* string is truthy whatever its value, '0' included
TruthyField(v) == v.tag # "null"

\* faulty variant: the substituted price is 0
DefaultPrice_Zero == Zero

\* the 0.5 substituted for a price
DefaultPrice == Half

\* market.get('volume', 0), market.get('liquidity', 0)
DefaultAmount == Num(0, 1)

\* market.get('outcomePrices', ['0.5', '0.5'])
GammaPrices(market) ==
    IF market.prices.tag = "absent"
    THEN List(<<[tag |-> "num", val |-> DefaultPrice], [tag |-> "num", val |-> DefaultPrice]>>)
    ELSE market.prices

\* the gamma branch raises: None[0], [][0], float() of a bad value
GammaRaises(market) ==
    LET outcome_prices == GammaPrices(market)
    IN  \/ outcome_prices.tag = "null"
        \/ Len(outcome_prices.items) = 0
        \/ TruthyField(outcome_prices.items[1]) /\ FloatRaises(outcome_prices.items[1])
        \/ /\ Len(outcome_prices.items) > 1
           /\ TruthyField(outcome_prices.items[2])
           /\ FloatRaises(outcome_prices.items[2])
        \/ FloatRaises(GetOr(market.volume, DefaultAmount))
        \/ FloatRaises(GetOr(market.liquidity, DefaultAmount))

\* the dict the gamma branch appends
GammaQuote(market) ==
    LET outcome_prices == GammaPrices(market)
    IN  [id |-> market.id,
         yes_price |-> IF TruthyField(outcome_prices.items[1]) THEN outcome_prices.items[1].val
                       ELSE DefaultPrice,
         no_price |-> IF Len(outcome_prices.items) > 1 /\ TruthyField(outcome_prices.items[2])
                      THEN outcome_prices.items[2].val ELSE DefaultPrice,
         volume |-> GetOr(market.volume, DefaultAmount).val,
         liquidity |-> GetOr(market.liquidity, DefaultAmount).val]

\* tokens[i].get('price', 0.5)
TokenPrice(token) == GetOr(token, [tag |-> "num", val |-> DefaultPrice])

\* the clob branch raises: len(None), float() of a bad value; market.get('tokens', [])
\* makes an absent key the empty list, and `if tokens` is false for None and []
ClobRaises(market) ==
    LET tokens == market.prices
    IN  \/ Len(tokens.items) > 0 /\ FloatRaises(TokenPrice(tokens.items[1]))
        \/ tokens.tag = "null"
        \/ Len(tokens.items) > 1 /\ FloatRaises(TokenPrice(tokens.items[2]))
        \/ FloatRaises(GetOr(market.volume, DefaultAmount))
        \/ FloatRaises(GetOr(market.liquidity, DefaultAmount))

\* the dict the clob branch appends
ClobQuote(market) ==
    LET tokens == market.prices
    IN  [id |-> market.id,
         yes_price |-> IF Len(tokens.items) > 0 THEN TokenPrice(tokens.items[1]).val
                       ELSE DefaultPrice,
         no_price |-> IF Len(tokens.items) > 1 THEN TokenPrice(tokens.items[2]).val
                      ELSE DefaultPrice,
         volume |-> GetOr(market.volume, DefaultAmount).val,
         liquidity |-> GetOr(market.liquidity, DefaultAmount).val]

\* the body of `try:` raises for this record
NormalizeRaises(market, api_type) ==
    IF api_type = "gamma" THEN GammaRaises(market) ELSE ClobRaises(market)

NormalizeQuote(market, api_type) ==
    IF api_type = "gamma" THEN GammaQuote(market) ELSE ClobQuote(market)

\* faulty variant: `break` in the except clause
RECURSIVE ProcessPrefix_Break(_, _, _)
ProcessPrefix_Break(raw, api_type, n) ==
    IF n = 0 THEN <<>>
    ELSE LET processed == ProcessPrefix_Break(raw, api_type, n - 1)
         IN  IF \E k \in 1..n : NormalizeRaises(raw[k], api_type) THEN processed
             ELSE Append(processed, NormalizeQuote(raw[n], api_type))

\* `processed` after the first n iterations of `for market in raw_markets`:
\* `except Exception: continue` skips a record whose normalization raises
RECURSIVE ProcessPrefix(_, _, _)
ProcessPrefix(raw, api_type, n) ==
    IF n = 0 THEN <<>>
    ELSE LET processed == ProcessPrefix(raw, api_type, n - 1)
         IN  IF NormalizeRaises(raw[n], api_type) THEN processed
             ELSE Append(processed, NormalizeQuote(raw[n], api_type))

process_markets(raw, api_type) == ProcessPrefix(raw, api_type, Len(raw))

\* process_markets raises to its caller: never, every iteration runs inside
\* `try: ... except Exception: continue`
ProcessRaises(raw, api_type) == FALSE

----------------------------------------------------------------------------
(* The two functions as their callers see them *)

\* app.py find_arbitrage_opportunities raises: some iteration divides by zero
FindRaises(quotes, M) ==
    \E k \in 1..Len(quotes) : Branch(quotes[k], M) = "sure_win" /\ SureWinRaises(quotes[k])

\* `opportunities` after the first n iterations of `for market in markets`
RECURSIVE FindAppends(_, _, _, _)
FindAppends(quotes, n, T, M) ==
    IF n = 0 THEN <<>>
    ELSE FindAppends(quotes, n - 1, T, M) \o Appends(quotes[n], n, T, M)

\* the list app.py find_arbitrage_opportunities returns when it does not raise
find_arbitrage_opportunities(quotes, T, M) ==
    StableSort(FindAppends(quotes, Len(quotes), T, M), "polymarket")

\* the dict `prices` after the first n exchanges were asked for one symbol
RECURSIVE CollectAll(_, _, _)
CollectAll(names, row, n) ==
    IF n = 0 THEN <<>>
    ELSE Collect(CollectAll(names, row, n - 1), names[n], get_price(row[n]))

\* detector: `opportunities` after the first n iterations of `for symbol in token_pairs`
\* detector: what the iterations lo..hi of `for symbol in token_pairs` append
RECURSIVE ScanAppends(_, _, _, _, _, _)
ScanAppends(names, T, pairs, rows, lo, hi) ==
    IF lo > hi THEN <<>>
    ELSE IF lo = hi
    THEN SpreadAppends(CollectAll(names, rows[lo], Len(names)), pairs[lo], T)
    ELSE LET mid == (lo + hi) \div 2
         IN  ScanAppends(names, T, pairs, rows, lo, mid)
                \o ScanAppends(names, T, pairs, rows, mid + 1, hi)

\* the list DexArbitrageDetector.find_arbitrage_opportunities returns; get_price
\* catches every exception, so the call always returns
DetectorScan(names, T, pairs, rows) ==
    StableSort(ScanAppends(names, T, pairs, rows, 1, Len(pairs)), "dex")

\* ArbitrageOpportunity(..., timestamp=datetime.now()) of a scan made at `now`
Stamped(found, now) ==
    [i \in 1..Len(found) |->
        [token_pair |-> found[i].token_pair,
         buy_exchange |-> found[i].buy_exchange, sell_exchange |-> found[i].sell_exchange,
         buy_price |-> found[i].buy_price, sell_price |-> found[i].sell_price,
         profit_percentage |-> found[i].profit_percentage,
         timestamp |-> now]]

----------------------------------------------------------------------------
(* dex_arbitrage_detector.py: EmailNotifier.send_alert *)

\* send_alert raises to its caller: never, `except Exception` prints and returns
SendAlertRaises(found, smtp_ok) == FALSE

----------------------------------------------------------------------------
(* dex_arbitrage_dashboard.py: the history *)

HistoryLimit == 100

\* faulty variant: opportunities_history[:100]
KeepRecent_Oldest(history) ==
    IF Len(history) > HistoryLimit THEN SubSeq(history, 1, HistoryLimit) ELSE history

\* if len(history) > 100: history = history[-100:]
KeepRecent(history) ==
    IF Len(history) > HistoryLimit
    THEN SubSeq(history, Len(history) - HistoryLimit + 1, Len(history))
    ELSE history

----------------------------------------------------------------------------
(* Inputs of the script runs *)

MaxRuns == 2

MaxRecords == 2

\* a raw record; `id` is filled in with its position in the fetched list
Raw(price_list, liquidity, volume) ==
    [id |-> 0, prices |-> price_list, liquidity |-> liquidity, volume |-> volume]

\* Gamma records: a sure-win quote, an overpriced quote, a price of '0', every
\* key absent, an empty price array, a non-numeric price, a null first price, a
\* one-element price array, a null price array, a null liquidity, a
\* non-numeric volume
GammaRecords ==
    {Raw(List(<<Num(45, 100), Num(47, 100)>>), Num(2000, 1), Num(10, 1)),
     Raw(List(<<Num(60, 100), Num(50, 100)>>), Num(2000, 1), Num(10, 1)),
     Raw(List(<<Num(0, 1), Num(50, 100)>>), Num(2000, 1), Num(10, 1)),
     Raw(NoList, Absent, Absent),
     Raw(List(<<>>), Num(2000, 1), Num(10, 1)),
     Raw(List(<<Text, Num(47, 100)>>), Num(2000, 1), Num(10, 1)),
     Raw(List(<<Null, Num(47, 100)>>), Num(2000, 1), Num(10, 1)),
     Raw(List(<<Num(45, 100)>>), Num(2000, 1), Num(10, 1)),
     Raw(NullList, Num(2000, 1), Num(10, 1)),
     Raw(List(<<Num(45, 100), Num(47, 100)>>), Null, Num(10, 1)),
     Raw(List(<<Num(45, 100), Num(47, 100)>>), Num(2000, 1), Text)}

\* CLOB records: two priced tokens, no tokens key, null tokens, a token
\* without price, a token with a null price, a single token
ClobRecords ==
    {Raw(List(<<Num(45, 100), Num(47, 100)>>), Num(2000, 1), Num(10, 1)),
     Raw(NoList, Num(2000, 1), Absent),
     Raw(NullList, Num(2000, 1), Num(10, 1)),
     Raw(List(<<Absent, Num(47, 100)>>), Num(2000, 1), Num(10, 1)),
     Raw(List(<<Null, Num(47, 100)>>), Num(2000, 1), Num(10, 1)),
     Raw(List(<<Num(45, 100)>>), Num(2000, 1), Num(10, 1))}

\* the list with the ids filled in
Numbered(raw) == [k \in 1..Len(raw) |-> [raw[k] EXCEPT !.id = k]]

\* what the provider may answer, per source format
RawLists(api_type) ==
    {Numbered(raw) : raw \in SeqsUpTo(IF api_type = "gamma" THEN GammaRecords
                                      ELSE ClobRecords, MaxRecords)}

\* what the provider answers in the script runs: a sure-win and an overpriced
\* quote, a price of '0' before a sure-win quote, one record with an empty
\* price array, and no record at all
ProviderAnswers ==
    {Numbered(<<Raw(List(<<Num(60, 100), Num(50, 100)>>), Num(2000, 1), Num(10, 1)),
                Raw(List(<<Num(45, 100), Num(47, 100)>>), Num(2000, 1), Num(10, 1))>>),
     Numbered(<<Raw(List(<<Num(0, 1), Num(50, 100)>>), Num(2000, 1), Num(10, 1)),
                Raw(List(<<Num(45, 100), Num(47, 100)>>), Num(2000, 1), Num(10, 1))>>),
     Numbered(<<Raw(List(<<>>), Num(2000, 1), Num(10, 1))>>),
     <<>>}

LastOnly(n) == Ticker(NoPrice, NoPrice, Rat(n, 1))

\* what the exchanges do for pair k: all raise; all quote 100; quote 100 and 100 + k
Row(kind, k) ==
    IF kind = "down" THEN <<Raised, Raised>>
    ELSE IF kind = "flat" THEN <<LastOnly(100), LastOnly(100)>>
    ELSE <<LastOnly(100), LastOnly(100 + k)>>

Scan(n, kind) ==
    [token_pairs |-> [k \in 1..n |-> k], answers |-> [k \in 1..n |-> Row(kind, k)]]

\* one token pair under each behaviour, and one scan of more pairs than the
\* history holds, every one of them an opportunity
DexScans ==
    {Scan(1, kind) : kind \in {"down", "flat", "spread"}}
    \cup {Scan(HistoryLimit + 1, "spread")}

----------------------------------------------------------------------------
(* The scripts: one action per script run *)

\* app.py, top to bottom (lines 229-362), with the widget values and the
\* provider's answer of this run
AppScript(button, auto_refresh, api_type, fetch_ok, raw) ==
    LET fetched == IF fetch_ok THEN raw ELSE <<>>
        processed == IF button /\ ~ProcessRaises(fetched, api_type)
                     THEN process_markets(fetched, api_type) ELSE <<>>
        classifies == button /\ processed # <<>>
        raises == classifies /\ FindRaises(processed, max_investment)
        stores == classifies /\ ~raises
        found == IF stores
                 THEN find_arbitrage_opportunities(processed, min_profit_pct, max_investment)
                 ELSE <<>>
    IN  /\ runs' = runs + 1
        /\ run_in' = [NoInput EXCEPT !.button = button, !.auto = auto_refresh,
                                     !.api_type = api_type, !.fetch_ok = fetch_ok]
        /\ raw_markets' = IF button THEN fetched ELSE <<>>
        /\ markets' = processed
        /\ opportunities' = found
        /\ session_opportunities' = IF stores THEN found ELSE session_opportunities
        /\ last_update' = IF stores THEN runs + 1 ELSE last_update
        /\ run_out' = [NoOutput EXCEPT
                !.scanned = button,
                !.stored = stores,
                !.raised = raises,
                !.notice = IF ~button THEN "none"
                           ELSE IF raises THEN "exception"
                           ELSE IF classifies THEN "success" ELSE "error",
                !.shown = ~raises /\ ~auto_refresh,
                !.rerun = ~raises /\ auto_refresh]
        /\ UNCHANGED <<app, pc, min_profit_pct, max_investment, idx, locals, dexVars,
                       answers, opportunities_history, last_scan_time,
                       total_opportunities_found, email_sent_count, appended>>

\* the user clicks the button or changes a widget: the script runs
AppUserRun ==
    /\ app = "polymarket"
    /\ pc = "script"
    /\ runs < MaxRuns
    /\ \E button \in BOOLEAN, auto_refresh \in BOOLEAN, api_type \in {"gamma", "clob"} :
          IF button
          THEN \E fetch_ok \in BOOLEAN :
                  \E raw \in IF fetch_ok THEN ProviderAnswers ELSE {<<>>} :
                      AppScript(button, auto_refresh, api_type, fetch_ok, raw)
          ELSE AppScript(button, auto_refresh, api_type, TRUE, <<>>)

\* st.rerun() of the auto-refresh: the script runs again, the button not pressed
AppAutoRerun ==
    /\ app = "polymarket"
    /\ pc = "script"
    /\ runs < MaxRuns
    /\ run_out.rerun
    /\ AppScript(FALSE, run_in.auto, run_in.api_type, TRUE, <<>>)

\* dex_arbitrage_dashboard.py main, top to bottom, with the widget values of
\* this run and what the exchanges and the SMTP server do during it
DashScript(scan_button, auto_scan, email_enabled, email_config, smtp_ok, scan) ==
    LET scans == scan_button \/ auto_scan
        now == runs + 1
    IN  \E found \in {IF scans
                      THEN Stamped(DetectorScan(exchanges, min_profit_percentage,
                                                scan.token_pairs, scan.answers), now)
                      ELSE <<>>} :
        LET alerts == found # <<>> /\ email_enabled /\ email_config
            alert_raises == alerts /\ SendAlertRaises(found, smtp_ok)
        IN  /\ runs' = now
            /\ run_in' = [NoInput EXCEPT !.button = scan_button, !.auto = auto_scan,
                                         !.email_enabled = email_enabled,
                                         !.email_config = email_config,
                                         !.smtp_ok = smtp_ok]
            /\ token_pairs' = scan.token_pairs
            /\ answers' = IF scans THEN scan.answers ELSE <<>>
            /\ opportunities' = found
            /\ last_scan_time' = IF scans THEN now ELSE last_scan_time
            /\ total_opportunities_found' = total_opportunities_found + Len(found)
            /\ opportunities_history' =
                    IF found # <<>> THEN KeepRecent(opportunities_history \o found)
                    ELSE opportunities_history
            /\ appended' = appended \o found
            /\ email_sent_count' = IF alerts /\ ~alert_raises THEN email_sent_count + 1
                                   ELSE email_sent_count
            /\ run_out' = [NoOutput EXCEPT
                    !.scanned = scans,
                    !.stored = scans,
                    !.notice = IF ~scans THEN "none"
                               ELSE IF found # <<>> THEN "success" ELSE "no_opportunity",
                    !.email_notice = IF ~alerts THEN "none"
                                     ELSE IF alert_raises THEN "failed" ELSE "sent",
                    !.shown = scans,
                    !.rerun = auto_scan]
            /\ UNCHANGED <<app, pc, polyVars, exchanges, min_profit_percentage, sym, exch,
                           prices, tickers, calls, raw_markets, session_opportunities,
                           last_update>>

\* the user clicks the scan button or changes a widget: the script runs
DashUserRun ==
    /\ app = "dex"
    /\ pc = "script"
    /\ runs < MaxRuns
    /\ \E scan_button \in BOOLEAN, auto_scan \in BOOLEAN, email_enabled \in BOOLEAN :
          IF scan_button \/ auto_scan
          THEN \E smtp_ok \in IF email_enabled THEN BOOLEAN ELSE {TRUE}, scan \in DexScans :
                  DashScript(scan_button, auto_scan, email_enabled, email_enabled,
                             smtp_ok, scan)
          ELSE DashScript(scan_button, auto_scan, email_enabled, email_enabled, TRUE,
                          Scan(1, "flat"))

\* st.rerun() after time.sleep(scan_interval): the script runs again, the
\* widgets as they were
DashAutoRerun ==
    /\ app = "dex"
    /\ pc = "script"
    /\ runs < MaxRuns
    /\ run_out.rerun
    /\ \E smtp_ok \in IF run_in.email_enabled THEN BOOLEAN ELSE {TRUE}, scan \in DexScans :
          DashScript(FALSE, run_in.auto, run_in.email_enabled, run_in.email_config,
                     smtp_ok, scan)

\* app.py lines 289-301 on their own: process_markets on what the provider
\* answered, then find_arbitrage_opportunities on its result `if markets:`
ProcessMarkets ==
    /\ app = "polymarket"
    /\ pc = "normalize"
    /\ markets' = IF ProcessRaises(raw_markets, run_in.api_type) THEN <<>>
                  ELSE process_markets(raw_markets, run_in.api_type)
    /\ pc' = IF ProcessRaises(raw_markets, run_in.api_type) THEN "normalize_raised"
             ELSE IF markets' # <<>> THEN "loop" ELSE "no_markets"
    /\ UNCHANGED <<app, opportunities, min_profit_pct, max_investment, idx, locals,
                   dexVars, uiVars>>

\* the provider has answered; the sidebar is at its default values
PipelineInit ==
    /\ app = "polymarket"
    /\ pc = "normalize"
    /\ opportunities = <<>>
    /\ markets = <<>>
    /\ min_profit_pct = Rat(2, 1)
    /\ max_investment = Rat(100, 1)
    /\ idx = 1
    /\ locals = NoLocals
    /\ DexIdle
    /\ runs = 0
    /\ \E api_type \in {"gamma", "clob"} :
          /\ run_in = [NoInput EXCEPT !.button = TRUE, !.api_type = api_type]
          /\ raw_markets \in RawLists(api_type)
    /\ run_out = NoOutput
    /\ answers = <<>>
    /\ session_opportunities = <<>>
    /\ last_update = 0
    /\ opportunities_history = <<>>
    /\ last_scan_time = 0
    /\ total_opportunities_found = 0
    /\ email_sent_count = 0
    /\ appended = <<>>

PipelineNext ==
    \/ ProcessMarkets
    \/ ClassifyMarket
    \/ ClassifyRaises
    \/ SortAndReturn

PipelineSpec == PipelineInit /\ [][PipelineNext]_vars

\* a session that has not run its script yet: the sidebar at its default values
UiInit ==
    /\ opportunities = <<>>
    /\ pc = "script"
    /\ UiIdle
    /\ \/ /\ app = "polymarket"
          /\ markets = <<>>
          /\ min_profit_pct = Rat(2, 1)
          /\ max_investment = Rat(100, 1)
          /\ idx = 1
          /\ locals = NoLocals
          /\ DexIdle
       \/ /\ app = "dex"
          /\ exchanges = <<"binance", "coinbasepro">>
          /\ min_profit_percentage = One
          /\ token_pairs = <<>>
          /\ sym = 1
          /\ exch = 1
          /\ prices = <<>>
          /\ tickers = <<>>
          /\ calls = 0
          /\ PolyIdle

UiNext ==
    \/ AppUserRun
    \/ AppAutoRerun
    \/ DashUserRun
    \/ DashAutoRerun

UiSpec == UiInit /\ [][UiNext]_vars

----------------------------------------------------------------------------
(* Properties of the binary-outcome classifier (app.py) *)

\* the quotes whose loop iteration has completed
Processed == IF app = "polymarket" THEN 1..(idx - 1) ELSE {}

\* the positions of the opportunities emitted for quote k
OppsOf(k) == {i \in 1..Len(opportunities) : opportunities[i].question = k}

ClaimTotal(q) == RAdd(q.yes_price, q.no_price)

\* min(M, liquidity * 0.10)
ClaimCap(q) == RMin(max_investment, RMul(q.liquidity, Rat(1, 10)))

PassesFloor(q) == RLe(Rat(10, 1), ClaimCap(q))

\* (min(shares_a, shares_b) - investment) with shares_x = (investment/2)/p_x
ClaimSureWinProfit(q) ==
    LET shares_a == RDiv(RDiv(ClaimCap(q), Two), q.yes_price)
        shares_b == RDiv(RDiv(ClaimCap(q), Two), q.no_price)
    IN  RSub(RMin(shares_a, shares_b), ClaimCap(q))

ClaimSureWinPct(q) == RMul(RDiv(ClaimSureWinProfit(q), ClaimCap(q)), Hundred)

InUnitInterval(p) == RLt(Zero, p) /\ RLe(p, One)

\* C1 (as claimed): for every quote with p_a + p_b < 0.98 that passes the
\* liquidity floor and has both prices in (0,1], the profit computed in the
\* sure-win branch is >= 0.
C1_SureWinProfitNonNegative ==
    (/\ app = "polymarket"
     /\ idx > 1
     /\ RLt(ClaimTotal(markets[idx - 1]), Rat(98, 100))
     /\ PassesFloor(markets[idx - 1])
     /\ InUnitInterval(markets[idx - 1].yes_price)
     /\ InUnitInterval(markets[idx - 1].no_price))
    => /\ locals.branch = "sure_win"
       /\ RLe(Zero, locals.profit)

IsSureWinOf(o, q) ==
    /\ o.type = "Sure Win"
    /\ o.risk = "None"
    /\ o.investment = ClaimCap(q)
    /\ o.profit_pct = ClaimSureWinPct(q)

ClaimOverpricedPct(q) == RMul(RMul(RSub(ClaimTotal(q), One), Rat(8, 10)), Hundred)

\* C3: for every processed quote with p_a + p_b > 1.02 that passes the
\* liquidity floor, the overpriced branch computes profit_pct = (total - 1) *
\* 0.8 * 100, whatever the prices, the liquidity and M; an Overpriced
\* opportunity with risk 'Low' and that profit_pct is emitted if and only if the
\* value is >= T, and nothing else is emitted for the quote; the quote
\* {0.60, 0.50, liquidity 1000} with T = 2 gives investment 100, profit 8, 8%.
C3_OverpricedPct ==
    /\ \A k \in Processed :
        (RLt(Rat(102, 100), ClaimTotal(markets[k])) /\ PassesFloor(markets[k]))
        => /\ (OppsOf(k) # {}) <=> RLe(min_profit_pct, ClaimOverpricedPct(markets[k]))
           /\ \A i \in OppsOf(k) :
                 /\ opportunities[i].type = "Overpriced"
                 /\ opportunities[i].risk = "Low"
                 /\ opportunities[i].profit_pct = ClaimOverpricedPct(markets[k])
           /\ (k = idx - 1) =>
                 /\ locals.branch = "overpriced"
                 /\ locals.profit_pct = ClaimOverpricedPct(markets[k])
           /\ (markets[k] = Q(60, 50, 1000) /\ min_profit_pct = Rat(2, 1))
              => \E i \in OppsOf(k) :
                    /\ opportunities[i].investment = Rat(100, 1)
                    /\ opportunities[i].profit = Rat(8, 1)
                    /\ opportunities[i].profit_pct = Rat(8, 1)
    /\ \A j, k \in Processed :
        (/\ RLt(Rat(102, 100), ClaimTotal(markets[j]))
         /\ ClaimTotal(markets[j]) = ClaimTotal(markets[k]))
        => \A i \in OppsOf(j), h \in OppsOf(k) :
              opportunities[i].profit_pct = opportunities[h].profit_pct

\* C3 witness: two overpriced quotes of equal total and different prices,
\* liquidity and investment were both emitted, one of them the spec's example
C3_Witness ==
    /\ app = "polymarket"
    /\ pc = "returned"
    /\ min_profit_pct = Rat(2, 1)
    /\ \E j, k \in Processed :
          /\ markets[j] = Q(60, 50, 1000)
          /\ markets[k] = Q(90, 20, 6000)
          /\ OppsOf(j) # {}
          /\ OppsOf(k) # {}

\* |expected_value - p_a| * 100, expected_value = 0.25 if p_a < 0.15 else 0.75
ClaimValueBetPct(q) ==
    LET expected_value == IF RLt(q.yes_price, Rat(15, 100)) THEN Rat(25, 100)
                          ELSE Rat(75, 100)
    IN  RMul(RAbs(RSub(expected_value, q.yes_price)), Hundred)

\* p_a in [0.15, 0.85]
InMiddleBand(q) == RLe(Rat(15, 100), q.yes_price) /\ RLe(q.yes_price, Rat(85, 100))

\* C4: every emitted Value Bet has profit_pct = |expected_value - p_a| * 100
\* >= 2*T, comes from a quote with liquidity > 5000 and p_a outside [0.15, 0.85];
\* so none is emitted below 2*T, even when the value is >= T.
C4_ValueBetDoubleThreshold ==
    \A k \in Processed : \A i \in OppsOf(k) :
        opportunities[i].type = "Value Bet"
        => /\ opportunities[i].profit_pct = ClaimValueBetPct(markets[k])
           /\ RLe(RMul(Rat(2, 1), min_profit_pct), opportunities[i].profit_pct)
           /\ RLt(Rat(5000, 1), markets[k].liquidity)
           /\ ~InMiddleBand(markets[k])

\* C4 witness: a value-bet quote worth at least T and less than 2*T was
\* classified and nothing was emitted for it
C4_Witness ==
    /\ app = "polymarket"
    /\ idx > 1
    /\ locals.branch = "value_bet"
    /\ RLe(min_profit_pct, locals.profit_pct)
    /\ RLt(locals.profit_pct, RMul(Rat(2, 1), min_profit_pct))
    /\ OppsOf(idx - 1) = {}

\* C5: each processed quote has at most one opportunity; a quote with total <
\* 0.98 has no Value Bet and no Overpriced opportunity, and none at all when its
\* sure-win profit percentage is below T; a quote with total > 1.02 has no
\* Value Bet (the branches are tried in the order SureWin, Overpriced, ValueBet).
C5_BranchesExclusive ==
    \A k \in Processed :
        /\ Cardinality(OppsOf(k)) <= 1
        /\ (RLt(ClaimTotal(markets[k]), Rat(98, 100)) /\ PassesFloor(markets[k]))
           => /\ \A i \in OppsOf(k) : opportunities[i].type = "Sure Win"
              /\ RLt(ClaimSureWinPct(markets[k]), min_profit_pct) => OppsOf(k) = {}
        /\ RLt(Rat(102, 100), ClaimTotal(markets[k]))
           => \A i \in OppsOf(k) : opportunities[i].type = "Overpriced"

\* C5 witness: a quote with total < 0.98, p_a < 0.15 and liquidity > 5000 whose
\* sure-win percentage fails T while its value-bet percentage would pass 2*T
C5_Witness ==
    /\ app = "polymarket"
    /\ \E k \in Processed :
          /\ RLt(ClaimTotal(markets[k]), Rat(98, 100))
          /\ RLt(markets[k].yes_price, Rat(15, 100))
          /\ RLt(Rat(5000, 1), markets[k].liquidity)
          /\ PassesFloor(markets[k])
          /\ RLt(ClaimSureWinPct(markets[k]), min_profit_pct)
          /\ RLe(RMul(Rat(2, 1), min_profit_pct), ClaimValueBetPct(markets[k]))
          /\ OppsOf(k) = {}

\* C6: every emitted opportunity has 10 <= investment <= min(M, liquidity *
\* 0.10); a processed quote with min(liquidity * 0.10, M) < 10 has no
\* opportunity, whatever its prices (so none is emitted when M < 10).
C6_InvestmentBounds ==
    \A k \in Processed :
        /\ \A i \in OppsOf(k) :
              /\ RLe(opportunities[i].investment, ClaimCap(markets[k]))
              /\ RLe(Rat(10, 1), opportunities[i].investment)
              /\ opportunities[i].liquidity = markets[k].liquidity
        /\ ~PassesFloor(markets[k]) => OppsOf(k) = {}
        /\ RLt(max_investment, Rat(10, 1)) => opportunities = <<>>

\* C6 witness: one quote was skipped by the floor and another was emitted with
\* an investment capped by its liquidity below M
C6_Witness ==
    /\ app = "polymarket"
    /\ \E j, k \in Processed :
          /\ ~PassesFloor(markets[j])
          /\ \E i \in OppsOf(k) : RLt(opportunities[i].investment, max_investment)

----------------------------------------------------------------------------
(* Properties of the ranking *)

PosIn(seq, x) == CHOOSE i \in 1..Len(seq) : seq[i] = x

IsPermutation(old, new) ==
    /\ Len(new) = Len(old)
    /\ \A i \in 1..Len(old) : \E j \in 1..Len(new) : new[j] = old[i]
    /\ \A i, j \in 1..Len(new) : new[i] = new[j] => i = j

ClaimTier(o) == IF o.risk = "None" THEN 0 ELSE 1

\* a ranks strictly before b
ClaimRanksBefore(a, b) ==
    IF app = "polymarket"
    THEN \/ ClaimTier(a) < ClaimTier(b)
         \/ ClaimTier(a) = ClaimTier(b) /\ RLt(b.profit_pct, a.profit_pct)
    ELSE RLt(b.profit_percentage, a.profit_percentage)

ClaimTied(a, b) == ~ClaimRanksBefore(a, b) /\ ~ClaimRanksBefore(b, a)

\* C7: the list either function returns is a permutation of the emitted
\* opportunities, ordered by (risk 'None' first, then profit percentage
\* descending) in app.py and by profit_percentage descending in the detector,
\* and opportunities of equal rank keep their discovery order.
C7_StableRanking ==
    [][pc' = "returned" =>
        /\ IsPermutation(opportunities, opportunities')
        /\ \A i, j \in 1..Len(opportunities') :
              i < j => ~ClaimRanksBefore(opportunities'[j], opportunities'[i])
        /\ \A i, j \in 1..Len(opportunities) :
              (i < j /\ ClaimTied(opportunities[i], opportunities[j]))
              => PosIn(opportunities', opportunities[i])
                    < PosIn(opportunities', opportunities[j])]_vars

\* C7 witness: a returned list holding two opportunities of equal rank, in
\* their discovery order
C7_Witness ==
    /\ pc = "returned"
    /\ app = "polymarket"
    /\ \E i, j \in 1..Len(opportunities) :
          /\ i < j
          /\ ClaimTied(opportunities[i], opportunities[j])
          /\ opportunities[i].question < opportunities[j].question

----------------------------------------------------------------------------
(* Properties of the cross-exchange detector *)

\* the symbol whose price map is complete: it was just classified
JustClassified == app = "dex" /\ pc \in {"start", "returned"} /\ sym > 1

DexOppsOf(symbol) ==
    {i \in 1..Len(opportunities) : opportunities[i].token_pair = symbol}

Present(v) == v # NoPrice /\ v # Zero

\* a usable price: a bid/ask pair, or else a last price
ClaimUsable(t) ==
    /\ t.kind = "ticker"
    /\ (Present(t.bid) /\ Present(t.ask)) \/ Present(t.last)

ClaimPrice(t) ==
    IF Present(t.bid) /\ Present(t.ask)
    THEN RDiv(RAdd(t.bid, t.ask), Rat(2, 1))
    ELSE t.last

\* the exchanges, by position, that returned a usable price for the symbol
UsableExchanges == {e \in 1..Len(tickers) : ClaimUsable(tickers[e])}

ClaimMinPrice ==
    ClaimPrice(tickers[CHOOSE e \in UsableExchanges :
        \A f \in UsableExchanges : RLe(ClaimPrice(tickers[e]), ClaimPrice(tickers[f]))])

ClaimMaxPrice ==
    ClaimPrice(tickers[CHOOSE e \in UsableExchanges :
        \A f \in UsableExchanges : RLe(ClaimPrice(tickers[f]), ClaimPrice(tickers[e]))])

ClaimSpreadPct ==
    RMul(RDiv(RSub(ClaimMaxPrice, ClaimMinPrice), ClaimMinPrice), Hundred)

\* the first exchange, in iteration order, holding price p
FirstHolding(p) ==
    exchanges[CHOOSE e \in UsableExchanges :
        /\ ClaimPrice(tickers[e]) = p
        /\ \A f \in UsableExchanges : ClaimPrice(tickers[f]) = p => e <= f]

\* C8: an opportunity is emitted for an instrument if and only if at least two
\* exchanges returned a usable price and (max - min)/min*100 >= T; with zero or
\* one usable price none is emitted, for any T (T = 0 included); at most one
\* opportunity is emitted per instrument.
C8_TwoSourcesAndThreshold ==
    JustClassified =>
        /\ (DexOppsOf(sym - 1) # {})
             <=> /\ Cardinality(UsableExchanges) >= 2
                 /\ RLe(min_profit_percentage, ClaimSpreadPct)
        /\ Cardinality(UsableExchanges) <= 1 => DexOppsOf(sym - 1) = {}
        /\ Cardinality(DexOppsOf(sym - 1)) <= 1

\* C8 witness: exactly one exchange returned a usable price, T = 0, and the
\* instrument was classified without an opportunity
C8_Witness ==
    /\ JustClassified
    /\ Len(exchanges) >= 2
    /\ Cardinality(UsableExchanges) = 1
    /\ min_profit_percentage = Zero
    /\ DexOppsOf(sym - 1) = {}

\* C9: in the opportunity emitted for an instrument, buy_price is the minimum
\* and sell_price the maximum collected price, buy_exchange and sell_exchange
\* are the first exchanges in iteration order holding them, and
\* profit_percentage = (sell_price - buy_price)/buy_price*100; prices
\* {A: 100.0, B: 101.5, C: no data} with T = 1 give buy = A, sell = B, 1.5%.
C9_BuyMinSellMax ==
    JustClassified =>
        /\ \A i \in DexOppsOf(sym - 1) :
              LET o == opportunities[i]
              IN  /\ o.buy_price = ClaimMinPrice
                  /\ o.sell_price = ClaimMaxPrice
                  /\ o.buy_exchange = FirstHolding(ClaimMinPrice)
                  /\ o.sell_exchange = FirstHolding(ClaimMaxPrice)
                  /\ o.profit_percentage
                        = RMul(RDiv(RSub(o.sell_price, o.buy_price), o.buy_price), Hundred)
        /\ (/\ Len(tickers) = 3
            /\ min_profit_percentage = One
            /\ ClaimUsable(tickers[1]) /\ ClaimPrice(tickers[1]) = Rat(100, 1)
            /\ ClaimUsable(tickers[2]) /\ ClaimPrice(tickers[2]) = Rat(203, 2)
            /\ ~ClaimUsable(tickers[3]))
           => \E i \in DexOppsOf(sym - 1) :
                 /\ opportunities[i].buy_exchange = exchanges[1]
                 /\ opportunities[i].sell_exchange = exchanges[2]
                 /\ opportunities[i].profit_percentage = Rat(3, 2)

\* C9 witness: two exchanges share the minimum price, a third is higher, and
\* the opportunity was emitted
C9_Witness ==
    /\ JustClassified
    /\ DexOppsOf(sym - 1) # {}
    /\ \E e, f \in UsableExchanges :
          /\ e < f
          /\ ClaimPrice(tickers[e]) = ClaimMinPrice
          /\ ClaimPrice(tickers[f]) = ClaimMinPrice
          /\ RLt(ClaimMinPrice, ClaimMaxPrice)

\* the price map the usable answers of the first n exchanges give
RECURSIVE ClaimMap(_)
ClaimMap(n) ==
    IF n = 0 THEN <<>>
    ELSE IF ClaimUsable(tickers[n])
         THEN Append(ClaimMap(n - 1),
                     [exchange |-> exchanges[n], price |-> ClaimPrice(tickers[n])])
    ELSE ClaimMap(n - 1)

\* C10: a fetch that raises (or times out) or returns no usable price only
\* leaves that exchange out of the instrument's price map: the scan never
\* aborts, the price map holds exactly the usable answers, every exchange is
\* asked for every instrument, the loops stay within their ranges (so a next
\* step exists until the scan returns), and the scan returns having scanned
\* every instrument; a failed fetch changes neither the price map nor the
\* opportunities.
C10_FailedFetchExcluded ==
    /\ [](app = "dex" =>
            /\ pc \in {"start", "fetch", "returned"}
            /\ pc = "fetch" =>
                  /\ Len(tickers) = exch - 1
                  /\ prices = ClaimMap(Len(tickers))
                  /\ calls = (sym - 1) * Len(exchanges) + (exch - 1)
            /\ JustClassified =>
                  /\ Len(tickers) = Len(exchanges)
                  /\ prices = ClaimMap(Len(tickers))
                  /\ calls = (sym - 1) * Len(exchanges)
            /\ pc = "returned" =>
                  /\ sym = Len(token_pairs) + 1
                  /\ calls = Len(token_pairs) * Len(exchanges)
            /\ pc = "start" => sym <= Len(token_pairs) + 1
            /\ pc = "fetch" => sym <= Len(token_pairs) /\ exch <= Len(exchanges) + 1)
    /\ [][(app = "dex" /\ Len(tickers') = Len(tickers) + 1
             /\ ~ClaimUsable(tickers'[Len(tickers')]))
          => /\ prices' = prices
             /\ opportunities' = opportunities
             /\ pc' = "fetch"
             /\ sym' = sym
             /\ exch' = exch + 1]_vars

\* C10 witness: the scan of two instruments returned with an opportunity for
\* the last one although its first exchange raised and another had no data
C10_Witness ==
    /\ app = "dex"
    /\ pc = "returned"
    /\ Len(token_pairs) = 2
    /\ Len(tickers) = 3
    /\ tickers[1].kind = "raise"
    /\ DexOppsOf(2) # {}

----------------------------------------------------------------------------
(* Properties of the scan pipeline of app.py: process_markets, then the classifier *)

\* the positions in `markets` of the quotes made from raw record k
QuotesOf(k) == {i \in 1..Len(markets) : markets[i].id = k}

\* process_markets has returned
Normalized == app = "polymarket" /\ pc \notin {"normalize", "normalize_raised"}

\* C11 (as claimed): an error while classifying one quote does not abort the
\* scan: whatever list of quotes process_markets produced, a quote of price 0
\* and total below 0.98 included, find_arbitrage_opportunities never ends in
\* an exception, and when it has returned every quote of the list was
\* classified.
C11_ScanSurvivesBadQuote ==
    app = "polymarket" =>
        /\ pc # "raised"
        /\ pc = "returned" => idx = Len(markets) + 1

\* C12: process_markets never raises, whatever the raw records and the source
\* format; its output is no longer than its input; each raw record yields at
\* most one quote and the quotes are in the order of their records; a record
\* whose normalization raises does not keep any other record, the later ones
\* included, from being normalized.
C12_NormalizerTotalAndOrdered ==
    /\ pc # "normalize_raised"
    /\ Normalized =>
        /\ Len(markets) <= Len(raw_markets)
        /\ \A i \in 1..Len(markets) : markets[i].id \in 1..Len(raw_markets)
        /\ \A i, j \in 1..Len(markets) : i < j => markets[i].id < markets[j].id
        /\ \A k \in 1..Len(raw_markets) :
              ~NormalizeRaises(raw_markets[k], run_in.api_type) => QuotesOf(k) # {}

\* C12 witness: a record that cannot be normalized is followed by one that
\* can, and the quote of the later record is in the output.
C12_Witness ==
    /\ Normalized
    /\ \E k, j \in 1..Len(raw_markets) :
          /\ k < j
          /\ NormalizeRaises(raw_markets[k], run_in.api_type)
          /\ QuotesOf(k) = {}
          /\ QuotesOf(j) # {}

\* a price, liquidity or volume field the claim calls missing or malformed
ClaimBadField(field) == field.tag \in {"absent", "null", "text"}

\* the i-th price of a raw record as the claim reads it: the neutral 0.5
\* when the array, or the price in it, is missing or malformed
ClaimPriceAt(record, i) ==
    IF record.prices.tag # "list" \/ Len(record.prices.items) < i THEN Rat(1, 2)
    ELSE IF ClaimBadField(record.prices.items[i]) THEN Rat(1, 2)
    ELSE record.prices.items[i].val

\* liquidity or volume as the claim reads it: 0 when missing or malformed
ClaimAmount(field) == IF ClaimBadField(field) THEN Rat(0, 1) ELSE field.val

\* quote i is the quote of `record` with the neutral defaults substituted
ClaimQuoteOf(i, record) ==
    /\ markets[i].yes_price = ClaimPriceAt(record, 1)
    /\ markets[i].no_price = ClaimPriceAt(record, 2)
    /\ markets[i].liquidity = ClaimAmount(record.liquidity)
    /\ markets[i].volume = ClaimAmount(record.volume)

\* the record has a field of a kind the normalizer does not repair: a null or
\* (gamma) empty price array, a non-numeric string or (clob) null among its
\* first two prices, a null or non-numeric liquidity or volume
ClaimUnrepairable(record, api_type) ==
    \/ record.prices.tag = "null"
    \/ api_type = "gamma" /\ record.prices.tag = "list" /\ Len(record.prices.items) = 0
    \/ \E i \in 1..2 :
          /\ i <= Len(record.prices.items)
          /\ \/ record.prices.items[i].tag = "text"
             \/ api_type = "clob" /\ record.prices.items[i].tag = "null"
    \/ record.liquidity.tag \in {"null", "text"}
    \/ record.volume.tag \in {"null", "text"}

\* C13 (as claimed): every raw record with a missing or malformed price,
\* liquidity or volume field (absent key, empty price array, non-numeric
\* string, null) still yields a quote, the neutral default in place of the
\* bad field (price 0.5, liquidity and volume 0).
C13_DefaultForEveryBadField ==
    Normalized =>
        \A k \in 1..Len(raw_markets) :
            \E i \in QuotesOf(k) : ClaimQuoteOf(i, raw_markets[k])

\* C13 (amended): a raw record whose price, liquidity or volume key is absent,
\* whose price array is short of a price or (gamma) holds a null price, yields
\* a quote with the neutral default in place of what is missing (price 0.5,
\* liquidity and volume 0); a record with a null or (gamma) empty price
\* array, a non-numeric string, a null liquidity or volume, or (clob) a null
\* token price yields no quote: it is dropped, and nothing is raised.
C13_DefaultOrDrop ==
    /\ pc # "normalize_raised"
    /\ Normalized =>
        \A k \in 1..Len(raw_markets) :
            IF ClaimUnrepairable(raw_markets[k], run_in.api_type)
            THEN QuotesOf(k) = {}
            ELSE \E i \in QuotesOf(k) : ClaimQuoteOf(i, raw_markets[k])

\* C13 witness: of two records, one without price, liquidity and volume keys
\* has its quote at 0.5 / 0.5 / 0 / 0, and one with an empty price array has
\* no quote.
C13_Witness ==
    /\ Normalized
    /\ run_in.api_type = "gamma"
    /\ \E k, j \in 1..Len(raw_markets) :
          /\ raw_markets[k].prices.tag = "absent"
          /\ raw_markets[k].liquidity.tag = "absent"
          /\ \E i \in QuotesOf(k) :
                /\ markets[i].yes_price = Rat(1, 2)
                /\ markets[i].no_price = Rat(1, 2)
                /\ markets[i].liquidity = Rat(0, 1)
          /\ raw_markets[j].prices.tag = "list"
          /\ Len(raw_markets[j].prices.items) = 0
          /\ QuotesOf(j) = {}

----------------------------------------------------------------------------
(* Properties of the script runs of the two dashboards *)

\* the last n elements of seq, all of it when it is not longer than n
ClaimLast(seq, n) ==
    IF Len(seq) <= n THEN seq
    ELSE [i \in 1..n |-> seq[Len(seq) - n + i]]

\* C14: after any sequence of scans of the cross-exchange dashboard the
\* history holds at most 100 entries and is exactly the most recent (up to
\* 100) of all the opportunities ever appended, in append order, a scan that
\* appends more than 100 included; the history changes only in a script run
\* that scanned, and then by the list the completed scan returned.
C14_HistoryKeepsMostRecent ==
    /\ [](app = "dex" =>
            /\ Len(opportunities_history) <= 100
            /\ opportunities_history = ClaimLast(appended, 100))
    /\ [][opportunities_history' # opportunities_history =>
            /\ run_out'.scanned
            /\ opportunities' # <<>>
            /\ opportunities_history' =
                    ClaimLast(opportunities_history \o opportunities', 100)]_vars

\* C14 witness: after an earlier scan that found an opportunity, one scan
\* returned more than 100; the history holds 100 entries, the oldest of all
\* and the first of that scan evicted.
C14_Witness ==
    /\ app = "dex"
    /\ Len(opportunities) > 100
    /\ Len(appended) > Len(opportunities)
    /\ Len(opportunities_history) = 100
    /\ opportunities_history[1] = opportunities[Len(opportunities) - 99]
    /\ opportunities_history[1] # appended[1]

\* the last script run tried to send an alert
AlertAttempted ==
    /\ app = "dex"
    /\ run_out.scanned
    /\ opportunities # <<>>
    /\ run_in.email_enabled
    /\ run_in.email_config

\* C15 (as claimed): when delivery of an alert fails, the dashboard's scan
\* step observes the failure and does not count the alert as sent:
\* email_sent_count is unchanged and no "sent" notice is shown, while the
\* history and total_opportunities_found are as the scan computed them.
C15_FailedAlertNotCounted ==
    [][(AlertAttempted /\ ~run_in.smtp_ok)' =>
            /\ email_sent_count' = email_sent_count
            /\ run_out'.email_notice = "failed"
            /\ total_opportunities_found' = total_opportunities_found + Len(opportunities')
            /\ opportunities_history' =
                    ClaimLast(opportunities_history \o opportunities', 100)]_vars

\* the clock value the session state holds for the last completed scan
StoredScanTime == IF app = "polymarket" THEN last_update ELSE last_scan_time

\* C16 (as claimed): in both dashboards every script run made with
\* auto-refresh on performs a scan, stores its result and the scan time, and
\* shows the current opportunities in that run; a run made with auto-refresh
\* off schedules no further run.
C16_AutoRefreshRescans ==
    runs > 0 =>
        /\ run_in.auto =>
              /\ run_out.scanned
              /\ run_out.stored
              /\ StoredScanTime = runs
              /\ run_out.shown
        /\ ~run_in.auto => ~run_out.rerun

\* no source could be reached in the last scan: the market provider's fetch
\* failed, or every exchange raised for every token pair
NoSourceReached ==
    IF app = "polymarket" THEN ~run_in.fetch_ok
    ELSE /\ token_pairs # <<>>
         /\ \A k \in 1..Len(answers) :
               \A e \in 1..Len(answers[k]) : answers[k][e].kind = "raise"

\* C17 (as claimed): a scan reports a scan-level failure, distinct from the
\* "no opportunity" result, exactly when no source could be reached at all.
C17_FailureIffNoSource ==
    (runs > 0 /\ run_out.scanned) =>
        (run_out.notice = "error" <=> NoSourceReached)

----------------------------------------------------------------------------
(* Properties of the opportunities of the cross-exchange detector *)

\* C18 (as claimed): every opportunity the detector has appended buys and
\* sells on different exchanges and sells strictly above the buy price,
\* whatever min_profit_percentage and whatever the collected prices, equal
\* prices on all exchanges included.
C18_DistinctExchangesPositiveProfit ==
    app = "dex" =>
        \A i \in 1..Len(opportunities) :
            /\ opportunities[i].buy_exchange # opportunities[i].sell_exchange
            /\ RLt(opportunities[i].buy_price, opportunities[i].sell_price)

====
